---- MODULE Spec2Model ----
(***************************************************************************)
(* segcam.py: class-activation maps for a segmentation network, gated by a *)
(* region of interest.  The driver (src/segcam.py) is modelled statement   *)
(* by statement.  BaseROI, PixelROI, ClassROI and SegModel live in         *)
(* pytorch_grad_cam/utils/roi.py, which is not among the source files;     *)
(* they are modelled from spec.md sections 3, 4.1 and 4.2.                 *)
(*                                                                         *)
(* Left out: --use-cuda, --aug_smooth and --eigen_smooth, which are only   *)
(* handed through to the CAM and guided-backprop engines, and the pixel    *)
(* values of the images the engines return.                                *)
(***************************************************************************)
EXTENDS Integers, Sequences, FiniteSets, TLC

VARIABLES
    argv,           \* the command line: method name, roimode, image file
    saveRequested,  \* whether this run is meant to save rather than display
    net,            \* which pretrained network / image content this run sees
    pixel,          \* the coordinate handed to PixelROI
    pc,             \* the statement the script is at
    err,            \* the exception that ended the run, "" if none
    args,           \* the parsed arguments
    rgb_img,        \* the loaded image
    input_tensor,   \* the preprocessed image
    heap,           \* the ROI objects constructed so far
    roi,            \* the script's name roi: an index into heap, 0 if unbound
    picked,         \* the coordinate the user clicked, <<>> before the pick
    segmodel,       \* the script's name segmodel
    cam,            \* the CAM engine
    gb_model,       \* the guided-backprop engine
    camOut,         \* what the CAM engine's model returned
    gbOut,          \* what the guided-backprop engine's model returned
    images,         \* the result images computed so far
    shown,          \* the images displayed
    files,          \* the files written
    log             \* the steps taken, in order

vars == <<argv, saveRequested, net, pixel, pc, err, args, rgb_img, input_tensor,
          heap, roi, picked, segmodel, cam, gb_model, camOut, gbOut, images, shown,
          files, log>>

-----------------------------------------------------------------------------
(* Bounds of the model *)

NumNets == 2
NumClasses == 13
ClickGrid == 2
ProbeMax == 4

(* Constants of the program *)

PixelRow == 50
PixelCol == 130
TargetClass == 12
Batch == 1

None == [kind |-> "None"]

Nets == 1..NumNets
Classes == 0..(NumClasses - 1)

\* The images a run may load: one far smaller than the hard-coded pixel and one
\* that just contains it.
SmallShape == <<3, 4>>
ImageShapes == {SmallShape, <<PixelRow + 1, PixelCol + 1>>}
ImageInputs == {<<>>} \cup ImageShapes

Cells(shape) == (0..(shape[1] - 1)) \X (0..(shape[2] - 1))

InBounds(p, shape) == /\ 0 <= p[1] /\ p[1] < shape[1]
                      /\ 0 <= p[2] /\ p[2] < shape[2]

-----------------------------------------------------------------------------
(* get_args and the methods table *)

MethodChoices_extra == {"gradcam", "gradcam++", "scorecam", "xgradcam",
                        "ablationcam", "eigencam", "eigengradcam", "layercam"}

MethodChoices == {"gradcam", "gradcam++", "scorecam", "xgradcam",
                  "ablationcam", "eigencam", "eigengradcam"}

\* The dict literal, entry by entry, in source order.
MethodsLiteral == << <<"gradcam", "GradCAM">>,
                     <<"scorecam", "ScoreCAM">>,
                     <<"gradcam++", "GradCAMPlusPlus">>,
                     <<"ablationcam", "AblationCAM">>,
                     <<"xgradcam", "XGradCAM">>,
                     <<"eigencam", "EigenCAM">>,
                     <<"eigengradcam", "EigenGradCAM">> >>

\* A dict literal keeps, for a key written twice, the last value.
MethodKeys == {MethodsLiteral[i][1] : i \in 1..Len(MethodsLiteral)}
methods == [m \in MethodKeys |->
              LET last == CHOOSE i \in 1..Len(MethodsLiteral) :
                             /\ MethodsLiteral[i][1] = m
                             /\ \A j \in 1..Len(MethodsLiteral) :
                                   MethodsLiteral[j][1] = m => j <= i
              IN MethodsLiteral[last][2]]

MethodInputs == MethodChoices \cup {"layercam"}
RoiModeInputs == (0 - 1)..4

-----------------------------------------------------------------------------
(* The segmentation network: an opaque collaborator.  Its raw score for    *)
(* class k at (r, c) is drawn from a family indexed by n: a background     *)
(* between -3 and 3 and a peak of 10 on one class per 2 x 3 tile.          *)

TopClass(n, r, c) ==
    (TargetClass + 7 * (n - 1) + 3 * (r \div 2) + 5 * (c \div 3)) % NumClasses

Score(n, r, c, k) ==
    ((n * r + 3 * c + 5 * k) % 7) - 3 + (IF k = TopClass(n, r, c) THEN 10 ELSE 0)

\* torch.argmax over the class dimension: the first index of the maximum.
RECURSIVE ArgMaxFrom(_, _, _, _, _, _)
ArgMaxFrom(n, r, c, k, best, bestScore) ==
    IF k = NumClasses THEN best
    ELSE LET x == Score(n, r, c, k)
         IN IF x > bestScore THEN ArgMaxFrom(n, r, c, k + 1, k, x)
            ELSE ArgMaxFrom(n, r, c, k + 1, best, bestScore)

Pred(n, p) == ArgMaxFrom(n, p[1], p[2], 1, 0, Score(n, p[1], p[2], 0))

-----------------------------------------------------------------------------
(* The ROI selector (spec.md 4.1) *)

\* Where the user may click: ClickGrid + 1 points along the image's diagonal.
Clicks(shape) ==
    {<<((shape[1] - 1) * a) \div ClickGrid, ((shape[2] - 1) * a) \div ClickGrid>> :
        a \in 0..ClickGrid}

\* Mode "all": every location, no parameters.
BaseROI(image) == [kind |-> "base", shape |-> image.shape]

\* Mode "fixed-pixel": validates 0 <= row < H and 0 <= col < W.
PixelROI_unchecked(i, j, image) ==
    [kind |-> "pixel", i |-> i, j |-> j, shape |-> image.shape]

PixelROI(i, j, image) ==
    IF InBounds(<<i, j>>, image.shape)
    THEN [kind |-> "pixel", i |-> i, j |-> j, shape |-> image.shape]
    ELSE [kind |-> "error", error |-> "OutOfBoundsError"]

\* The blocking pick: one click overwrites the coordinate.
onclick(d, p) == [d EXCEPT !.i = p[1], !.j = p[2]]

\* pred, the label map: the highest-scoring class of every location, tabulated
\* once per network and image.
LabelTable ==
    [n \in Nets |-> [shape \in ImageShapes |-> [p \in Cells(shape) |-> Pred(n, p)]]]

\* Mode "class-region": the cells of the label map that carry the class; the
\* class must occur in the map.
ClassROI(image, labels, cls) ==
    IF \E p \in DOMAIN labels : labels[p] = cls
    THEN [kind |-> "class", cls |-> cls, shape |-> image.shape,
          cells |-> {p \in DOMAIN labels : labels[p] = cls}]
    ELSE [kind |-> "error", error |-> "UnknownClassError"]

\* 4-connectivity.  (On the score maps above diagonal tiles never share a
\* class, so 8-connectivity gives the same components.)
Neighbours(p, shape) ==
    {q \in {<<p[1] - 1, p[2]>>, <<p[1] + 1, p[2]>>,
            <<p[1], p[2] - 1>>, <<p[1], p[2] + 1>>} : InBounds(q, shape)}

RECURSIVE Flood(_, _, _, _)
Flood(n, shape, cls, S) ==
    LET grown == S \cup {q \in UNION {Neighbours(p, shape) : p \in S} : Pred(n, q) = cls}
    IN IF grown = S THEN S ELSE Flood(n, shape, cls, grown)

\* Interactive selection of a class and one of its connected components: the
\* click names the class under it and the component around it.
pickComponentClass(d, n, p) ==
    [d EXCEPT !.cls = Pred(n, p), !.cells = Flood(n, d.shape, Pred(n, p), {p})]

\* The weight an ROI gives a location.
Mask(d, p) ==
    CASE d.kind = "base"  -> 1
      [] d.kind = "pixel" -> IF p = <<d.i, d.j>> THEN 1 ELSE 0
      [] d.kind = "class" -> IF p \in d.cells THEN 1 ELSE 0

-----------------------------------------------------------------------------
(* The segmentation model adapter (spec.md 4.2) *)

RawShape(shape) == <<Batch, NumClasses, shape[1], shape[2]>>

\* Sum over the spatial dimensions, by halving (a linear recursion is too deep
\* for an image 131 columns wide).  A row the ROI gives no weight adds nothing.
RowWeighted(d, r) == \E c \in 0..(d.shape[2] - 1) : Mask(d, <<r, c>>) # 0

RECURSIVE SumCols(_, _, _, _, _, _)
SumCols(n, d, r, lo, hi, k) ==
    IF lo > hi THEN 0
    ELSE IF lo = hi
         THEN LET m == Mask(d, <<r, lo>>)
              IN IF m = 0 THEN 0 ELSE m * Score(n, r, lo, k)
    ELSE LET mid == (lo + hi) \div 2
         IN SumCols(n, d, r, lo, mid, k) + SumCols(n, d, r, mid + 1, hi, k)

RECURSIVE SumRows(_, _, _, _, _)
SumRows(n, d, lo, hi, k) ==
    IF lo > hi THEN 0
    ELSE IF lo = hi
         THEN IF RowWeighted(d, lo) THEN SumCols(n, d, lo, 0, d.shape[2] - 1, k) ELSE 0
    ELSE LET mid == (lo + hi) \div 2
         IN SumRows(n, d, lo, mid, k) + SumRows(n, d, mid + 1, hi, k)

\* SegModel(model, roi): the adapter keeps the descriptor it was given, not a
\* copy of it.
SegModel(model, ref) == [kind |-> "SegModel", model |-> model, roi |-> ref]

\* forward: run the network, apply the ROI, reduce over the spatial dimensions.
Forward(n, d) ==
    [kind |-> "tensor",
     shape |-> SubSeq(RawShape(d.shape), 1, 2),
     val |-> [k \in Classes |-> SumRows(n, d, 0, d.shape[1] - 1, k)]]

\* The network called directly: the whole score map.
RawForward(n, shape) == [kind |-> "tensor", shape |-> RawShape(shape), val |-> <<>>]

\* Forward tabulated over the descriptors a run can hold when a forward pass
\* happens, so that each is summed once rather than once per state.
TabPixels(shape) ==
    IF shape = SmallShape THEN Cells(shape)
    ELSE {p \in Clicks(shape) \cup {<<PixelRow, PixelCol>>} : InBounds(p, shape)}

TabROIs(n, shape) ==
    LET image == [shape |-> shape]
        empty == [kind |-> "class", cls |-> TargetClass, shape |-> shape, cells |-> {}]
    IN {BaseROI(image)}
       \cup {PixelROI(p[1], p[2], image) : p \in TabPixels(shape)}
       \cup {pickComponentClass(empty, n, p) : p \in Clicks(shape)}

ForwardTable ==
    [n \in Nets |-> [shape \in ImageShapes |-> [d \in TabROIs(n, shape) |-> Forward(n, d)]]]

SegModelForward(n, d) ==
    IF d \in DOMAIN ForwardTable[n][d.shape] THEN ForwardTable[n][d.shape][d]
    ELSE Forward(n, d)

-----------------------------------------------------------------------------
(* The driver *)

Init ==
    /\ argv \in [method : MethodInputs, roimode : RoiModeInputs, image : ImageInputs]
    /\ saveRequested \in BOOLEAN
    /\ net \in Nets
    /\ pixel = <<PixelRow, PixelCol>>
    /\ pc = "start"
    /\ err = ""
    /\ args = None
    /\ rgb_img = None
    /\ input_tensor = None
    /\ heap = <<>>
    /\ roi = 0
    /\ picked = <<>>
    /\ segmodel = None
    /\ cam = None
    /\ gb_model = None
    /\ camOut = None
    /\ gbOut = None
    /\ images = {}
    /\ shown = {}
    /\ files = {}
    /\ log = <<>>

\* The ROI selector on its own: any coordinate, inside the image or not.
Probes == (0 - 1)..ProbeMax

InitSelect ==
    /\ argv \in [method : MethodInputs, roimode : RoiModeInputs, image : {SmallShape}]
    /\ saveRequested = FALSE
    /\ net \in Nets
    /\ pixel \in Probes \X Probes
    /\ pc = "start"
    /\ err = ""
    /\ args = None
    /\ rgb_img = None
    /\ input_tensor = None
    /\ heap = <<>>
    /\ roi = 0
    /\ picked = <<>>
    /\ segmodel = None
    /\ cam = None
    /\ gb_model = None
    /\ camOut = None
    /\ gbOut = None
    /\ images = {}
    /\ shown = {}
    /\ files = {}
    /\ log = <<>>

Raise(e) == pc' = "exit" /\ err' = e

\* args = get_args(): argparse rejects a method outside the choices; any
\* integer is a roimode.
ParseArgs ==
    /\ pc = "start"
    /\ log' = Append(log, "parse")
    /\ IF argv.method \in MethodChoices
       THEN /\ args' = [kind |-> "args", method |-> argv.method,
                        roimode |-> argv.roimode, image_path |-> argv.image]
            /\ pc' = "model"
            /\ err' = err
       ELSE /\ Raise("SystemExit")
            /\ args' = args
    /\ UNCHANGED <<argv, saveRequested, net, pixel, rgb_img, input_tensor, heap, roi,
                   picked, segmodel, cam, gb_model, camOut, gbOut, images, shown, files>>

\* model = fcn_resnet50(pretrained=True); model.eval(); target_layer = ...
LoadModel ==
    /\ pc = "model"
    /\ pc' = "imread"
    /\ log' = Append(log, "load_model")
    /\ UNCHANGED <<argv, saveRequested, net, pixel, err, args, rgb_img, input_tensor,
                   heap, roi, picked, segmodel, cam, gb_model, camOut, gbOut, images, shown, files>>

\* rgb_img = cv2.imread(path, 1)[:, :, ::-1]: imread returns None for a file it
\* cannot read, and None cannot be subscripted.
ReadImage ==
    /\ pc = "imread"
    /\ log' = Append(log, "load_image")
    /\ IF args.image_path = <<>>
       THEN /\ Raise("TypeError")
            /\ rgb_img' = rgb_img
       ELSE /\ rgb_img' = [kind |-> "image", shape |-> args.image_path,
                            order |-> "RGB", max |-> 255]
            /\ pc' = "normalize"
            /\ err' = err
    /\ UNCHANGED <<argv, saveRequested, net, pixel, args, input_tensor, heap, roi,
                   picked, segmodel, cam, gb_model, camOut, gbOut, images, shown, files>>

\* rgb_img = np.float32(rgb_img) / 255
Normalize ==
    /\ pc = "normalize"
    /\ rgb_img' = [rgb_img EXCEPT !.max = rgb_img.max \div 255]
    /\ pc' = "preprocess"
    /\ log' = Append(log, "normalize")
    /\ UNCHANGED <<argv, saveRequested, net, pixel, err, args, input_tensor, heap, roi,
                   picked, segmodel, cam, gb_model, camOut, gbOut, images, shown, files>>

\* input_tensor = preprocess_image(rgb_img, mean, std)
Preprocess ==
    /\ pc = "preprocess"
    /\ input_tensor' = [kind |-> "tensor",
                        shape |-> <<Batch, 3, rgb_img.shape[1], rgb_img.shape[2]>>]
    /\ pc' = "roi"
    /\ log' = Append(log, "preprocess")
    /\ UNCHANGED <<argv, saveRequested, net, pixel, err, args, rgb_img, heap, roi,
                   picked, segmodel, cam, gb_model, camOut, gbOut, images, shown, files>>

\* The if / elif chain on ROIMode, lines 91 to 108: which descriptor a mode
\* constructs.  A mode outside 0..3 matches no branch.
NewROI_mode0pixel(mode, px, image, labels) ==
    CASE mode = 0 -> PixelROI(px[1], px[2], image)
      [] mode = 1 -> PixelROI(px[1], px[2], image)
      [] mode = 2 -> PixelROI(px[1], px[2], image)
      [] mode = 3 -> ClassROI(image, labels, TargetClass)

NewROI_mode1base(mode, px, image, labels) ==
    CASE mode = 0 -> BaseROI(image)
      [] mode = 1 -> BaseROI(image)
      [] mode = 2 -> PixelROI(px[1], px[2], image)
      [] mode = 3 -> ClassROI(image, labels, TargetClass)

NewROI(mode, px, image, labels) ==
    CASE mode = 0 -> BaseROI(image)
      [] mode = 1 -> PixelROI(px[1], px[2], image)
      [] mode = 2 -> PixelROI(px[1], px[2], image)
      [] mode = 3 -> ClassROI(image, labels, TargetClass)

ROIModes == 0..3

ConstructROI ==
    /\ pc = "roi"
    /\ IF args.roimode \in ROIModes
       THEN LET d == NewROI(args.roimode, pixel, rgb_img, LabelTable[net][rgb_img.shape])
            IN /\ log' = Append(log, "roi")
               /\ IF d.kind = "error"
                  THEN /\ Raise(d.error)
                       /\ UNCHANGED <<heap, roi>>
                  ELSE /\ heap' = Append(heap, d)
                       /\ roi' = Len(heap) + 1
                       /\ pc' = IF args.roimode = 3 THEN "pick_class" ELSE "adapter"
                       /\ err' = err
       ELSE /\ pc' = "cam_new"
            /\ UNCHANGED <<err, heap, roi, log>>
    /\ UNCHANGED <<argv, saveRequested, net, pixel, args, rgb_img, input_tensor,
                   picked, segmodel, cam, gb_model, camOut, gbOut, images, shown, files>>

\* roi.pickComponentClass(), line 112
PickComponentClass ==
    /\ pc = "pick_class"
    /\ \E p \in Clicks(rgb_img.shape) :
          /\ heap' = [heap EXCEPT ![roi] = pickComponentClass(@, net, p)]
          /\ picked' = p
    /\ pc' = "adapter"
    /\ log' = Append(log, "pick")
    /\ UNCHANGED <<argv, saveRequested, net, pixel, err, args, rgb_img, input_tensor,
                   roi, segmodel, cam, gb_model, camOut, gbOut, images, shown, files>>

\* roi=roi: the script hands SegModel the object it holds, lines 93, 97, 103, 113.
RoiArgument_copy(h, r) == <<Append(h, h[r]), Len(h) + 1>>

RoiArgument(h, r) == <<h, r>>

\* roi.pickPixel() follows SegModel(...) in mode 2, line 104.
NeedsPick(mode) == mode = 2

ConstructAdapter ==
    /\ pc = "adapter"
    /\ LET b == RoiArgument(heap, roi)
       IN /\ heap' = b[1]
          /\ segmodel' = SegModel("fcn_resnet50", b[2])
    /\ pc' = IF NeedsPick(args.roimode) /\ picked = <<>> THEN "pick_pixel" ELSE "cam_new"
    /\ log' = Append(log, "adapter")
    /\ UNCHANGED <<argv, saveRequested, net, pixel, err, args, rgb_img, input_tensor,
                   roi, picked, cam, gb_model, camOut, gbOut, images, shown, files>>

\* roi.pickPixel(), line 104
PickPixel ==
    /\ pc = "pick_pixel"
    /\ \E p \in Clicks(rgb_img.shape) :
          /\ heap' = [heap EXCEPT ![roi] = onclick(@, p)]
          /\ picked' = p
    /\ pc' = "cam_new"
    /\ log' = Append(log, "pick")
    /\ UNCHANGED <<argv, saveRequested, net, pixel, err, args, rgb_img, input_tensor,
                   roi, segmodel, cam, gb_model, camOut, gbOut, images, shown, files>>

\* The other order, which lines 101 and 102 say works as well: the pick
\* before the descriptor is handed to SegModel.
PickPixelFirst ==
    /\ pc = "adapter"
    /\ args.roimode = 2
    /\ picked = <<>>
    /\ \E p \in Clicks(rgb_img.shape) :
          /\ heap' = [heap EXCEPT ![roi] = onclick(@, p)]
          /\ picked' = p
    /\ log' = Append(log, "pick")
    /\ UNCHANGED <<argv, saveRequested, net, pixel, pc, err, args, rgb_img, input_tensor,
                   roi, segmodel, cam, gb_model, camOut, gbOut, images, shown, files>>

\* model=segmodel, lines 116 and 138: the model the two engines are given.
CamModelArg_raw == "model"

CamModelArg == "segmodel"

GbModelArg_raw == "model"

GbModelArg == "segmodel"

\* cam = methods[args.method](model=segmodel, ...); cam.batch_size = 32.
\* The subscript is evaluated first, then the name segmodel.
ConstructCAM ==
    /\ pc = "cam_new"
    /\ IF args.method \notin DOMAIN methods
       THEN /\ Raise("KeyError")
            /\ cam' = cam
       ELSE IF CamModelArg = "segmodel" /\ segmodel = None
       THEN /\ Raise("NameError")
            /\ cam' = cam
       ELSE /\ cam' = [kind |-> "cam", class |-> methods[args.method],
                        model |-> CamModelArg, batch_size |-> 32]
            /\ pc' = "cam_call"
            /\ err' = err
    /\ UNCHANGED <<argv, saveRequested, net, pixel, args, rgb_img, input_tensor, heap,
                   roi, picked, segmodel, gb_model, camOut, gbOut, images, shown, files, log>>

\* What an engine's model returns for input_tensor, at the time of the call.
ModelCall(which) ==
    IF which = "segmodel" THEN SegModelForward(net, heap[segmodel.roi])
    ELSE RawForward(net, rgb_img.shape)

\* grayscale_cam = cam(input_tensor=..., target_category=None, ...)[0, :]
CallCAM ==
    /\ pc = "cam_call"
    /\ camOut' = ModelCall(cam.model)
    /\ images' = images \cup {"grayscale_cam"}
    /\ pc' = "overlay"
    /\ log' = Append(log, "cam")
    /\ UNCHANGED <<argv, saveRequested, net, pixel, err, args, rgb_img, input_tensor,
                   heap, roi, picked, segmodel, cam, gb_model, gbOut, shown, files>>

\* cam_image = show_cam_on_image(rgb_img, grayscale_cam)
Overlay ==
    /\ pc = "overlay"
    /\ images' = images \cup {"cam_image"}
    /\ pc' = "gb"
    /\ log' = Append(log, "overlay")
    /\ UNCHANGED <<argv, saveRequested, net, pixel, err, args, rgb_img, input_tensor,
                   heap, roi, picked, segmodel, cam, gb_model, camOut, gbOut, shown, files>>

\* gb_model = GuidedBackpropReLUModel(model=segmodel, ...); gb = gb_model(...)
GuidedBackprop ==
    /\ pc = "gb"
    /\ gb_model' = [kind |-> "gb", model |-> GbModelArg]
    /\ gbOut' = ModelCall(GbModelArg)
    /\ images' = images \cup {"gb"}
    /\ pc' = "composite"
    /\ log' = Append(log, "gb")
    /\ UNCHANGED <<argv, saveRequested, net, pixel, err, args, rgb_img, input_tensor,
                   heap, roi, picked, segmodel, cam, camOut, shown, files>>

\* cam_mask = cv2.merge(...); cam_gb = deprocess_image(cam_mask * gb); gb = ...
Composite ==
    /\ pc = "composite"
    /\ images' = images \cup {"cam_gb"}
    /\ pc' = "output"
    /\ log' = Append(log, "composite")
    /\ UNCHANGED <<argv, saveRequested, net, pixel, err, args, rgb_img, input_tensor,
                   heap, roi, picked, segmodel, cam, gb_model, camOut, gbOut, shown, files>>

\* The condition of the if at line 145.
ShowInteractive_off == FALSE

ShowInteractive == TRUE

OutputFiles(method) == {<<method, "_cam.jpg">>, <<method, "_gb.jpg">>, <<method, "_cam_gb.jpg">>}

\* if True: plt.imshow(cam_image); plt.imshow(cam_gb); plt.show()
\* else: three cv2.imwrite
Output ==
    /\ pc = "output"
    /\ IF ShowInteractive
       THEN /\ shown' = {"cam_image", "cam_gb"}
            /\ files' = files
       ELSE /\ files' = OutputFiles(args.method)
            /\ shown' = shown
    /\ pc' = "done"
    /\ log' = Append(log, "output")
    /\ UNCHANGED <<argv, saveRequested, net, pixel, err, args, rgb_img, input_tensor,
                   heap, roi, picked, segmodel, cam, gb_model, camOut, gbOut, images>>

Next ==
    \/ ParseArgs
    \/ LoadModel
    \/ ReadImage
    \/ Normalize
    \/ Preprocess
    \/ ConstructROI
    \/ PickComponentClass
    \/ ConstructAdapter
    \/ PickPixel
    \/ ConstructCAM
    \/ CallCAM
    \/ Overlay
    \/ GuidedBackprop
    \/ Composite
    \/ Output

\* The script as written.
Spec == Init /\ [][Next]_vars

\* The script with the pick in either place.
SpecEitherOrder == Init /\ [][Next \/ PickPixelFirst]_vars

\* The script with any coordinate in place of (50, 130).
SpecSelect == InitSelect /\ [][Next]_vars

-----------------------------------------------------------------------------
(* Properties *)

Range(f) == {f[i] : i \in DOMAIN f}

\* ROI selection (the if / elif chain) has been reached and left.
PastROISelection == "preprocess" \in Range(log) /\ pc # "roi"

\* The statements from the construction of the CAM engine on.
FromCAM == {"cam_new", "cam_call", "overlay", "gb", "composite", "output", "done"}

\* The raw score map summed over every location, with no ROI involved.
RECURSIVE RawSumCols(_, _, _, _, _)
RawSumCols(n, r, lo, hi, k) ==
    IF lo = hi THEN Score(n, r, lo, k)
    ELSE LET mid == (lo + hi) \div 2
         IN RawSumCols(n, r, lo, mid, k) + RawSumCols(n, r, mid + 1, hi, k)

RECURSIVE RawSumRows(_, _, _, _, _)
RawSumRows(n, shape, lo, hi, k) ==
    IF lo = hi THEN RawSumCols(n, lo, 0, shape[2] - 1, k)
    ELSE LET mid == (lo + hi) \div 2
         IN RawSumRows(n, shape, lo, mid, k) + RawSumRows(n, shape, mid + 1, hi, k)

RawSums ==
    [n \in Nets |-> [shape \in ImageShapes |->
        [k \in Classes |-> RawSumRows(n, shape, 0, shape[1] - 1, k)]]]

ScoreAt(n, p) == [k \in Classes |-> Score(n, p[1], p[2], k)]

\* C1: with the all-pixels ROI (roimode 0) what the adapter returns to the CAM
\* engine and to the guided-backprop engine is, for each class, the sum of the
\* network's raw score over every location of the image.
C1_AllPixelsSum ==
    (args # None /\ args.roimode = 0) =>
        /\ camOut # None => camOut.val = RawSums[net][rgb_img.shape]
        /\ gbOut # None => gbOut.val = RawSums[net][rgb_img.shape]

C1_Witness ==
    /\ pc = "done"
    /\ args.roimode = 0
    /\ rgb_img.shape = <<PixelRow + 1, PixelCol + 1>>
    /\ camOut.val = RawSums[net][rgb_img.shape]

\* C2: with the single-pixel ROI of roimode 1, PixelROI(50, 130, image), what the
\* adapter returns is the network's raw score vector at (50, 130).
C2_SinglePixelScore ==
    (args # None /\ args.roimode = 1) =>
        /\ camOut # None => camOut.val = ScoreAt(net, <<50, 130>>)
        /\ gbOut # None => gbOut.val = ScoreAt(net, <<50, 130>>)

C2_Witness ==
    /\ pc = "done"
    /\ args.roimode = 1
    /\ camOut.val = ScoreAt(net, <<50, 130>>)
    /\ camOut.val # RawSums[net][rgb_img.shape]

\* C3: in roimode 2, whether the pick came before or after SegModel(model, roi),
\* once it is made the adapter gates on the picked coordinate: its ROI is the
\* picked pixel and what it returns is the raw score vector there.
C3_PickGatesAdapter ==
    (args # None /\ args.roimode = 2 /\ picked # <<>> /\ segmodel # None) =>
        /\ heap[segmodel.roi].kind = "pixel"
        /\ <<heap[segmodel.roi].i, heap[segmodel.roi].j>> = picked
        /\ camOut # None => camOut.val = ScoreAt(net, picked)
        /\ gbOut # None => gbOut.val = ScoreAt(net, picked)

\* The script's order, with a pick away from (50, 130).
C3_Witness ==
    /\ pc = "done"
    /\ args.roimode = 2
    /\ picked # <<>>
    /\ picked # <<50, 130>>
    /\ \E i \in 1..(Len(log) - 1) : log[i] = "adapter" /\ log[i + 1] = "pick"
    /\ camOut.val = ScoreAt(net, picked)
    /\ camOut.val # ScoreAt(net, <<50, 130>>)

\* C4: a roimode outside 0..3 ends the run with InvalidModeError at ROI
\* selection; the run does not go on to construct the CAM engine.
C4_InvalidModeRaises ==
    (args # None /\ args.roimode \notin 0..3 /\ PastROISelection) =>
        /\ pc = "exit"
        /\ err = "InvalidModeError"

\* C5 as stated: a runtime flag selects between displaying and saving, so a
\* run meant to save ends with the three files written and nothing displayed,
\* and a run meant to display ends with the images displayed and no file.
C5_FlagSelectsOutput ==
    pc = "done" =>
        IF saveRequested
        THEN files = OutputFiles(args.method) /\ shown = {}
        ELSE shown # {} /\ files = {}

\* C5 amended: every run that reaches the output step displays cam_image and
\* cam_gb, and no run ever writes a file.
C5_AlwaysDisplays ==
    /\ files = {}
    /\ pc = "done" => shown = {"cam_image", "cam_gb"}

C5_Witness ==
    /\ pc = "done"
    /\ saveRequested
    /\ shown = {"cam_image", "cam_gb"}
    /\ images = {"grayscale_cam", "cam_image", "gb", "cam_gb"}

\* The steps C6 names, in the order it gives them.
StepOrder == <<"parse", "load_image", "normalize", "roi", "adapter", "cam", "gb",
               "composite", "output">>

StepIndex(step) == CHOOSE i \in 1..Len(StepOrder) : StepOrder[i] = step

IsNamedStep(step) == step \in Range(StepOrder)

\* C6: no step is taken twice, the named steps are taken in the order parse,
\* load image, normalize, construct ROI, construct adapter, CAM, guided
\* backprop, composite, output, and both engines are given the adapter.
C6_LinearPipeline ==
    /\ \A i, j \in 1..Len(log) : i < j => log[i] # log[j]
    /\ LET named == SelectSeq(log, IsNamedStep)
       IN \A i, j \in 1..Len(named) : i < j => StepIndex(named[i]) < StepIndex(named[j])
    /\ cam # None => cam.model = "segmodel" /\ segmodel # None
    /\ gb_model # None => gb_model.model = "segmodel" /\ segmodel # None

C6_Witness ==
    /\ pc = "done"
    /\ SelectSeq(log, IsNamedStep) = StepOrder
    /\ cam.model = "segmodel"
    /\ gb_model.model = "segmodel"

ROIInBounds(d) ==
    CASE d.kind = "base"  -> TRUE
      [] d.kind = "pixel" -> InBounds(<<d.i, d.j>>, rgb_img.shape)
      [] d.kind = "class" -> \A p \in d.cells : InBounds(p, rgb_img.shape)

\* C7: once ROI selection is over, for whatever roimode the parser accepted and
\* whatever image was loaded, exactly one ROI has been constructed, it lies
\* within the image, and by the time the CAM engine is constructed it is the
\* adapter's.
C7_OneROIInBounds ==
    PastROISelection =>
        /\ Len(heap) = 1
        /\ ROIInBounds(heap[1])
        /\ pc \in FromCAM => segmodel # None /\ segmodel.roi = 1

\* C8: a fixed pixel outside the image (row >= H, col >= W or a negative
\* coordinate) ends the run with OutOfBoundsError at ROI selection: no ROI, no
\* adapter, no engine and no forward pass exists.
C8_OutOfBoundsRaises ==
    (/\ args # None
     /\ args.roimode \in {1, 2}
     /\ rgb_img # None
     /\ ~ InBounds(pixel, rgb_img.shape)
     /\ PastROISelection) =>
        /\ pc = "exit"
        /\ err = "OutOfBoundsError"
        /\ heap = <<>>
        /\ segmodel = None
        /\ cam = None
        /\ camOut = None
        /\ gbOut = None

\* The spec's example: row = H.
C8_Witness ==
    /\ pc = "exit"
    /\ err = "OutOfBoundsError"
    /\ args.roimode = 1
    /\ pixel[1] = rgb_img.shape[1]
    /\ pixel[2] \in 0..(rgb_img.shape[2] - 1)

\* C9: whatever the ROI, what the two engines get from their model has shape
\* (batch, C): one number per class per batch element.
C9_OutputShape ==
    /\ camOut # None =>
          camOut.shape = <<Batch, NumClasses>> /\ DOMAIN camOut.val = Classes
    /\ gbOut # None =>
          gbOut.shape = <<Batch, NumClasses>> /\ DOMAIN gbOut.val = Classes

\* The degenerate case: a single picked pixel.
C9_Witness ==
    /\ pc = "done"
    /\ args.roimode = 2
    /\ heap[segmodel.roi].kind = "pixel"
    /\ camOut.shape = <<1, NumClasses>>
    /\ gbOut.shape = <<1, NumClasses>>

AcceptedNames == {"gradcam", "gradcam++", "scorecam", "xgradcam", "ablationcam",
                  "eigencam", "eigengradcam"}

\* C10: each of the seven method names has exactly one entry in the methods
\* table, any other name is rejected when the arguments are parsed, and the
\* lookup methods[args.method] never fails.
C10_MethodDispatchTotal ==
    /\ \A m \in AcceptedNames :
          Cardinality({i \in 1..Len(MethodsLiteral) : MethodsLiteral[i][1] = m}) = 1
    /\ (argv.method \notin AcceptedNames /\ pc # "start") =>
          pc = "exit" /\ err = "SystemExit" /\ args = None
    /\ (argv.method \in AcceptedNames /\ pc # "start") => args # None
    /\ args # None => args.method \in DOMAIN methods
    /\ err # "KeyError"

C10_Witness ==
    /\ argv.method = "eigengradcam"
    /\ pc = "cam_call"
    /\ cam.class = "EigenGradCAM"

====
